---- MODULE Spec2Model ----
(***************************************************************************)
(* Model of the Cronometer stopwatch of src/test.py and of the factorial   *)
(* benchmark of src/stress_tests/test5_factorial.py.                       *)
(*                                                                         *)
(* Numbers.  time.time() returns a float number of seconds.  A float is    *)
(* modelled as a decimal [m, e] standing for m * 10^(-e); a clock reading  *)
(* has three decimals (millisecond resolution).  Multiplying and dividing  *)
(* by 1000 move the decimal point, divmod is floor division on the scaled  *)
(* mantissa.  Binary rounding error of floats is outside the model.        *)
(* Strings are sequences of one-character strings.                         *)
(***************************************************************************)
EXTENDS Integers, Sequences, FiniteSets, TLC

VARIABLES
    clock,      \* the wall clock, in steps of TickLen
    cron,       \* the Cronometer object: its start_time and end_time
    retMs,      \* what elapsedMilliseconds() returned since the last start()/stop()
    retFmt,     \* what elapsedFormatted() returned since the last start()/stop()
    err,        \* a call raised
    hist,       \* the start() and stop() calls made, with the reading at each
    nQueries,   \* queries made since the last start()/stop()
    pc,         \* test5_factorial.py: where the script is
    i,          \* test5_factorial.py: the loop variable
    result,     \* test5_factorial.py: the sum
    stack,      \* test5_factorial.py: the argument n of every open factorial frame
    retval,     \* test5_factorial.py: the value the last frame returned
    fstart,     \* test5_factorial.py: start
    fend,       \* test5_factorial.py: end
    returned    \* the argument and value of every factorial call that returned

cronVars == <<cron, retMs, retFmt, err, hist, nQueries>>
factVars == <<pc, i, result, stack, retval, fstart, fend, returned>>
vars == <<clock, cronVars, factVars>>

------------------------------------------------------------------------------
(* Bounds of the model *)

\* number of clock positions above 0
MaxClock == 3
\* length of one clock step, in thousandths of a second
TickLen == 1500
\* number of start()/stop() calls in a run
MaxCalls == 3
\* number of queries between two start()/stop() calls
MaxRepeat == 3

------------------------------------------------------------------------------
(* Decimal numbers *)

Pow10(n) == IF n <= 0 THEN 1 ELSE IF n = 1 THEN 10 ELSE IF n = 2 THEN 100
            ELSE IF n = 3 THEN 1000 ELSE IF n = 4 THEN 10000
            ELSE IF n = 5 THEN 100000 ELSE 1000000

Dec(m, e) == [m |-> m, e |-> e]

\* a and b brought to the same number of decimals, then subtracted
DecSub(a, b) ==
    LET e == IF a.e >= b.e THEN a.e ELSE b.e
    IN  Dec(a.m * Pow10(e - a.e) - b.m * Pow10(e - b.e), e)

\* x * k for an integer k >= 1: a factor 10 of k moves the decimal point one
\* place to the right while x has decimals left
RECURSIVE DecMul(_, _)
DecMul(x, k) ==
    IF x.e > 0 /\ k % 10 = 0 THEN DecMul(Dec(x.m, x.e - 1), k \div 10)
    ELSE Dec(x.m * k, x.e)

\* x / k for k a power of ten: the decimal point moves to the left
RECURSIVE DecDiv(_, _)
DecDiv(x, k) ==
    IF x.m = 0 \/ k <= 1 THEN x ELSE DecDiv(Dec(x.m, x.e + 1), k \div 10)

\* divmod(x, k) for an integer k >= 1: <<floor(x / k), x - k * floor(x / k)>>
DecDivMod(x, k) ==
    LET unit == k * Pow10(x.e)
    IN  <<x.m \div unit, Dec(x.m % unit, x.e)>>

DecIsNeg(x) == x.m < 0
DecIsZero(x) == x.m = 0
\* x is the integer n
DecIsInt(x, n) == x.m = n * Pow10(x.e)

------------------------------------------------------------------------------
(* Python values *)

None == <<>>
Some(x) == <<x>>

Returned(self, v) == [self |-> self, raised |-> FALSE, ret |-> v]
Raised(self, v) == [self |-> self, raised |-> TRUE, ret |-> v]

\* a - b on two attribute values: TypeError when either is None
PySub(a, b) ==
    IF a = None \/ b = None
    THEN [raised |-> TRUE, val |-> Dec(0, 0)]
    ELSE [raised |-> FALSE, val |-> DecSub(a[1], b[1])]

------------------------------------------------------------------------------
(* Cronometer, src/test.py *)

MsPerSecond == 1000
SecondsPerHour == 3600
SecondsPerMinute == 60
FracDigits == 3
PadWidth == 2

\* time.time(): the reading of the wall clock, seconds with three decimals
time == Dec(clock * TickLen, 3)

\* Cronometer.__init__
Cronometer == [start_time |-> None, end_time |-> None]

start_KeepsFirst(self) ==
    Returned(IF self.start_time = None
             THEN [self EXCEPT !.start_time = Some(time)] ELSE self, None)

start_ClearsEnd(self) ==
    Returned([self EXCEPT !.start_time = Some(time), !.end_time = None], None)

start(self) == Returned([self EXCEPT !.start_time = Some(time)], None)

stop(self) == Returned([self EXCEPT !.end_time = Some(time)], None)

elapsedMilliseconds_StartOnly(self) ==
    IF self.start_time = None
    THEN Returned(self, Dec(0, 0))
    ELSE LET d == PySub(self.end_time, self.start_time)
         IN  IF d.raised THEN Raised(self, Dec(0, 0))
             ELSE Returned(self, DecMul(d.val, MsPerSecond))

elapsedMilliseconds_And(self) ==
    IF self.start_time = None /\ self.end_time = None
    THEN Returned(self, Dec(0, 0))
    ELSE LET d == PySub(self.end_time, self.start_time)
         IN  IF d.raised THEN Raised(self, Dec(0, 0))
             ELSE Returned(self, DecMul(d.val, MsPerSecond))

elapsedMilliseconds_Seconds(self) ==
    IF self.start_time = None \/ self.end_time = None
    THEN Returned(self, Dec(0, 0))
    ELSE LET d == PySub(self.end_time, self.start_time)
         IN  IF d.raised THEN Raised(self, Dec(0, 0))
             ELSE Returned(self, d.val)

elapsedMilliseconds_Clamped(self) ==
    IF self.start_time = None \/ self.end_time = None
    THEN Returned(self, Dec(0, 0))
    ELSE LET d == PySub(self.end_time, self.start_time)
         IN  IF d.raised THEN Raised(self, Dec(0, 0))
             ELSE IF DecIsNeg(d.val) THEN Returned(self, Dec(0, 0))
             ELSE Returned(self, DecMul(d.val, MsPerSecond))

elapsedMilliseconds_Swapped(self) ==
    IF self.start_time = None \/ self.end_time = None
    THEN Returned(self, Dec(0, 0))
    ELSE LET d == PySub(self.start_time, self.end_time)
         IN  IF d.raised THEN Raised(self, Dec(0, 0))
             ELSE Returned(self, DecMul(d.val, MsPerSecond))

elapsedMilliseconds_StopsOnRead(self) ==
    LET s == [self EXCEPT !.end_time = Some(time)]
    IN  IF s.start_time = None
        THEN Returned(self, Dec(0, 0))
        ELSE Returned(s, DecMul(PySub(s.end_time, s.start_time).val, MsPerSecond))

elapsedMilliseconds(self) ==
    IF self.start_time = None \/ self.end_time = None
    THEN Returned(self, Dec(0, 0))
    ELSE LET d == PySub(self.end_time, self.start_time)
         IN  IF d.raised THEN Raised(self, Dec(0, 0))
             ELSE Returned(self, DecMul(d.val, MsPerSecond))

------------------------------------------------------------------------------
(* Formatting *)

DigitChars == <<"0", "1", "2", "3", "4", "5", "6", "7", "8", "9">>

\* str(n) for an integer n >= 0
RECURSIVE NatToStr(_)
NatToStr(n) ==
    IF n < 10 THEN <<DigitChars[n + 1]>>
    ELSE NatToStr(n \div 10) \o <<DigitChars[(n % 10) + 1]>>

\* s filled with zeros on the left up to width w
RECURSIVE ZeroFill(_, _)
ZeroFill(s, w) == IF Len(s) >= w THEN s ELSE ZeroFill(<<"0">> \o s, w)

\* format(n, "0<w>") of an integer: the sign counts in the width
FormatInt(n, w) ==
    IF n < 0 THEN <<"-">> \o ZeroFill(NatToStr(-n), w - 1)
    ELSE ZeroFill(NatToStr(n), w)

\* m / unit rounded to the nearest integer, ties to even, for m >= 0
RoundHalfEven(m, unit) ==
    LET q == m \div unit
        r == m % unit
    IN  IF 2 * r > unit \/ (2 * r = unit /\ q % 2 = 1) THEN q + 1 ELSE q

\* format(x, ".<p>f") of a decimal: no minimum width, exactly p decimals
FormatFixed(x, p) ==
    LET a == IF x.m < 0 THEN -x.m ELSE x.m
        scaled == IF x.e <= p THEN a * Pow10(p - x.e)
                  ELSE RoundHalfEven(a, Pow10(x.e - p))
        sign == IF x.m < 0 THEN <<"-">> ELSE <<>>
    IN  sign \o NatToStr(scaled \div Pow10(p)) \o <<".">>
             \o ZeroFill(NatToStr(scaled % Pow10(p)), p)

elapsedFormatted(self) ==
    LET r == elapsedMilliseconds(self)
        hr == DecDivMod(DecDiv(r.ret, MsPerSecond), SecondsPerHour)
        hours == hr[1]
        rem == hr[2]
        mr == DecDivMod(rem, SecondsPerMinute)
        minutes == mr[1]
        seconds == mr[2]
    IN  IF r.raised THEN Raised(r.self, <<>>)
        ELSE Returned(r.self,
                 FormatInt(hours, PadWidth) \o <<":">> \o
                 FormatInt(minutes, PadWidth) \o <<":">> \o
                 FormatFixed(seconds, FracDigits))

------------------------------------------------------------------------------
(* Calls on the stopwatch.  hist is the record of the start() and stop()  *)
(* calls made so far with the clock reading at each; retMs and retFmt hold *)
(* what the queries returned since the last start() or stop().            *)

Out(r) == <<[raised |-> r.raised, val |-> r.ret]>>

CallStart ==
    /\ Len(hist) < MaxCalls
    /\ LET r == start(cron)
       IN  /\ cron' = r.self
           /\ err' = (err \/ r.raised)
    /\ hist' = Append(hist, [op |-> "start", t |-> time.m])
    /\ retMs' = <<>>
    /\ retFmt' = <<>>
    /\ nQueries' = 0
    /\ UNCHANGED <<clock, factVars>>

CallStop ==
    /\ Len(hist) < MaxCalls
    /\ LET r == stop(cron)
       IN  /\ cron' = r.self
           /\ err' = (err \/ r.raised)
    /\ hist' = Append(hist, [op |-> "stop", t |-> time.m])
    /\ retMs' = <<>>
    /\ retFmt' = <<>>
    /\ nQueries' = 0
    /\ UNCHANGED <<clock, factVars>>

CallElapsedMilliseconds ==
    /\ nQueries < MaxRepeat
    /\ LET r == elapsedMilliseconds(cron)
       IN  /\ cron' = r.self
           /\ err' = (err \/ r.raised)
           /\ retMs' = Out(r)
    /\ nQueries' = nQueries + 1
    /\ UNCHANGED <<clock, hist, retFmt, factVars>>

CallElapsedFormatted ==
    /\ nQueries < MaxRepeat
    /\ LET r == elapsedFormatted(cron)
       IN  /\ cron' = r.self
           /\ err' = (err \/ r.raised)
           /\ retFmt' = Out(r)
    /\ nQueries' = nQueries + 1
    /\ UNCHANGED <<clock, hist, retMs, factVars>>

\* the wall clock advances
Tick ==
    /\ clock < MaxClock
    /\ clock' = clock + 1
    /\ UNCHANGED <<cronVars, factVars>>

\* the wall clock is set back (time.time() is not monotonic)
ClockBack ==
    /\ clock > 0
    /\ clock' = clock - 1
    /\ UNCHANGED <<cronVars, factVars>>

\* test5_factorial.py before its first statement
FactFresh ==
    /\ pc = "start"
    /\ i = 0
    /\ result = <<0>>
    /\ stack = <<>>
    /\ retval = <<0>>
    /\ fstart = None
    /\ fend = None
    /\ returned = {}

Init ==
    /\ clock \in 0..MaxClock
    /\ cron = Cronometer
    /\ retMs = <<>>
    /\ retFmt = <<>>
    /\ err = FALSE
    /\ hist = <<>>
    /\ nQueries = 0
    /\ FactFresh

Next ==
    \/ CallStart
    \/ CallStop
    \/ CallElapsedMilliseconds
    \/ CallElapsedFormatted
    \/ Tick
    \/ ClockBack

Spec == Init /\ [][Next]_vars

\* the same stopwatch under a clock that never goes back
NextMono ==
    \/ CallStart
    \/ CallStop
    \/ CallElapsedMilliseconds
    \/ CallElapsedFormatted
    \/ Tick

SpecMono == Init /\ [][NextMono]_vars

------------------------------------------------------------------------------
(* The formatter alone, on a stopwatch that was started at reading 0 and   *)
(* stopped d thousandths of a second later                                 *)

\* number of half-second steps among the elapsed times tried
MaxHalfSeconds == 30

HundredHoursMs == 100 * 3600 * 1000

FmtInputs ==
    {500 * k : k \in 0..MaxHalfSeconds}
    \cup {1, 999, 9999, 10000, 59999, 60000, 61001, 599999, 600000, 3599999,
          3600000, 3661500, 35999999, 36000000, 86399999, 359999999}

InitFmt ==
    /\ clock = 0
    /\ \E d \in FmtInputs :
          /\ cron = [start_time |-> Some(Dec(0, 3)), end_time |-> Some(Dec(d, 3))]
          /\ hist = <<[op |-> "start", t |-> 0], [op |-> "stop", t |-> d]>>
    /\ retMs = <<>>
    /\ retFmt = <<>>
    /\ err = FALSE
    /\ nQueries = 0
    /\ FactFresh

NextFmt ==
    \/ CallElapsedMilliseconds
    \/ CallElapsedFormatted

SpecFmt == InitFmt /\ [][NextFmt]_vars

------------------------------------------------------------------------------
(* The factorial benchmark, src/stress_tests/test5_factorial.py.  A Python *)
(* int has no width: it is a sequence of base-10000 digits, lowest first.  *)

RangeStart == 1
RangeStop == 101
Modulus == 20

RECURSIVE BigCarry(_)
\* the digits of a carry c >= 0, none for 0
BigCarry(c) == IF c = 0 THEN <<>> ELSE <<c % 10000>> \o BigCarry(c \div 10000)

RECURSIVE BigMulFrom(_, _, _)
BigMulFrom(b, k, c) ==
    IF b = <<>> THEN BigCarry(c)
    ELSE LET p == b[1] * k + c
         IN  <<p % 10000>> \o BigMulFrom(Tail(b), k, p \div 10000)

\* b * k for a small integer k >= 1
BigMul(b, k) == BigMulFrom(b, k, 0)

RECURSIVE BigAddFrom(_, _, _)
BigAddFrom(a, b, c) ==
    IF a = <<>> /\ b = <<>> THEN BigCarry(c)
    ELSE LET x == IF a = <<>> THEN 0 ELSE a[1]
             y == IF b = <<>> THEN 0 ELSE b[1]
             ta == IF a = <<>> THEN <<>> ELSE Tail(a)
             tb == IF b = <<>> THEN <<>> ELSE Tail(b)
         IN  <<(x + y + c) % 10000>> \o BigAddFrom(ta, tb, (x + y + c) \div 10000)

BigAdd(a, b) == BigAddFrom(a, b, 0)

Top == stack[Len(stack)]
Pop == SubSeq(stack, 1, Len(stack) - 1)

\* start = time.time(); result = 0
FactStart ==
    /\ pc = "start"
    /\ fstart' = Some(time)
    /\ result' = <<0>>
    /\ i' = RangeStart - 1
    /\ pc' = "loop"
    /\ UNCHANGED <<clock, cronVars, stack, retval, fend, returned>>

\* for i in range(1, 101): the call factorial(i % 20) of the next round, or
\* the end of the loop
FactLoop ==
    /\ pc = "loop"
    /\ IF i + 1 < RangeStop
       THEN /\ i' = i + 1
            /\ stack' = <<(i + 1) % Modulus>>
            /\ pc' = "call"
       ELSE /\ pc' = "end"
            /\ UNCHANGED <<i, stack>>
    /\ UNCHANGED <<clock, cronVars, result, retval, fstart, fend, returned>>

FactCall_BaseZero ==
    /\ pc = "call"
    /\ IF Top <= 0
       THEN /\ retval' = <<1>>
            /\ returned' = returned \cup {[n |-> Top, val |-> <<1>>]}
            /\ stack' = Pop
            /\ pc' = "return"
       ELSE /\ stack' = Append(stack, Top - 1)
            /\ UNCHANGED <<retval, returned, pc>>
    /\ UNCHANGED <<clock, cronVars, i, result, fstart, fend>>

\* factorial(n) entered: if n <= 1: return 1, otherwise the call
\* factorial(n - 1)
FactCall ==
    /\ pc = "call"
    /\ IF Top <= 1
       THEN /\ retval' = <<1>>
            /\ returned' = returned \cup {[n |-> Top, val |-> <<1>>]}
            /\ stack' = Pop
            /\ pc' = "return"
       ELSE /\ stack' = Append(stack, Top - 1)
            /\ UNCHANGED <<retval, returned, pc>>
    /\ UNCHANGED <<clock, cronVars, i, result, fstart, fend>>

\* factorial(n - 1) came back into the frame of n: return n * factorial(n - 1)
FactReturn ==
    /\ pc = "return"
    /\ stack # <<>>
    /\ retval' = BigMul(retval, Top)
    /\ returned' = returned \cup {[n |-> Top, val |-> BigMul(retval, Top)]}
    /\ stack' = Pop
    /\ UNCHANGED <<clock, cronVars, pc, i, result, fstart, fend>>

\* result += the value of the outermost call
FactAccumulate ==
    /\ pc = "return"
    /\ stack = <<>>
    /\ result' = BigAdd(result, retval)
    /\ pc' = "loop"
    /\ UNCHANGED <<clock, cronVars, i, stack, retval, fstart, fend, returned>>

\* end = time.time()
FactEnd ==
    /\ pc = "end"
    /\ fend' = Some(time)
    /\ pc' = "done"
    /\ UNCHANGED <<clock, cronVars, i, result, stack, retval, fstart, returned>>

FactStep ==
    \/ FactStart
    \/ FactLoop
    \/ FactCall
    \/ FactReturn
    \/ FactAccumulate
    \/ FactEnd

NextFact ==
    \/ FactStep
    \/ Tick
    \/ ClockBack

\* the interpreter runs the script on: a step that can be taken is taken
SpecFact == Init /\ [][NextFact]_vars /\ WF_vars(FactStep)

------------------------------------------------------------------------------
(* What the record of calls says *)

HasCall(op) == \E k \in 1..Len(hist) : hist[k].op = op

LastIndex(op) ==
    CHOOSE k \in 1..Len(hist) :
        /\ hist[k].op = op
        /\ \A j \in (k + 1)..Len(hist) : hist[j].op # op

LastReading(op) == hist[LastIndex(op)].t

BothPresent == cron.start_time # None /\ cron.end_time # None

\* the step is a call of start() or stop()
IsMutation == Len(hist') = Len(hist) + 1

\* the step is a call of elapsedMilliseconds() or elapsedFormatted()
IsQuery == nQueries' = nQueries + 1

------------------------------------------------------------------------------
(* Claims *)

\* C1: when start() was never called or stop() was never called, whatever
\* else was called, elapsedMilliseconds() returns 0.
C1_ZeroWhenASlotNeverSet ==
    (retMs # <<>> /\ (~HasCall("start") \/ ~HasCall("stop")))
        => (~retMs[1].raised /\ DecIsZero(retMs[1].val))

C1_Witness ==
    /\ retMs # <<>>
    /\ HasCall("stop")
    /\ ~HasCall("start")
    /\ clock > 0

IsDigit(c) == \E k \in 1..10 : DigitChars[k] = c

IsHHMMSSmmm(str) ==
    /\ Len(str) = 12
    /\ str[3] = ":"
    /\ str[6] = ":"
    /\ str[9] = "."
    /\ \A k \in {1, 2, 4, 5, 7, 8, 10, 11, 12} : IsDigit(str[k])

ElapsedMs == cron.end_time[1].m - cron.start_time[1].m

\* C2: for an elapsed time from 0 up to 100 hours elapsedFormatted() returns
\* twelve characters HH:MM:SS.mmm, every field zero-padded; 1500 ms gives
\* "00:00:01.500" and 3661500 ms gives "01:01:01.500".
C2_FormattedIsHHMMSSmmm ==
    (retFmt # <<>> /\ BothPresent /\ ElapsedMs >= 0 /\ ElapsedMs < HundredHoursMs)
        => /\ ~retFmt[1].raised
           /\ IsHHMMSSmmm(retFmt[1].val)
           /\ ElapsedMs = 1500 =>
                 retFmt[1].val =
                     <<"0", "0", ":", "0", "0", ":", "0", "1", ".", "5", "0", "0">>
           /\ ElapsedMs = 3661500 =>
                 retFmt[1].val =
                     <<"0", "1", ":", "0", "1", ":", "0", "1", ".", "5", "0", "0">>

\* C3: with both timestamps present elapsedMilliseconds() returns the reading
\* of the most recent stop() minus the reading of the most recent start(), in
\* milliseconds; readings 1500 ms apart give 1500.
C3_ElapsedIsStopMinusStart ==
    (retMs # <<>> /\ BothPresent)
        => LET d == LastReading("stop") - LastReading("start")
           IN  /\ ~retMs[1].raised
               /\ DecIsInt(retMs[1].val, d)
               /\ d = 1500 => retMs[1].val = Dec(1500, 0)

C3_Witness ==
    /\ retMs # <<>>
    /\ BothPresent
    /\ LastReading("stop") - LastReading("start") = 1500
    /\ retMs[1].val = Dec(1500, 0)

TwoStartsThenStop ==
    /\ Len(hist) >= 3
    /\ hist[Len(hist) - 2].op = "start"
    /\ hist[Len(hist) - 1].op = "start"
    /\ hist[Len(hist)].op = "stop"

MeasuredFromSecondStart ==
    (retMs # <<>> /\ TwoStartsThenStop)
        => LET t1 == hist[Len(hist) - 2].t
               t2 == hist[Len(hist) - 1].t
               t3 == hist[Len(hist)].t
           IN  /\ DecIsInt(retMs[1].val, t3 - t2)
               /\ t1 # t2 => ~DecIsInt(retMs[1].val, t3 - t1)

SlotReplaced ==
    IsMutation =>
        LET c == hist'[Len(hist')]
        IN  /\ c.op = "start" => cron'.start_time = Some(Dec(c.t, 3))
            /\ c.op = "stop" => cron'.end_time = Some(Dec(c.t, 3))

\* C4: every start() and stop() call replaces the value of its own slot by
\* the reading at the call; after start() at t1, start() at t2 and stop() at
\* t3 the elapsed time is t3 - t2 and, when t1 differs from t2, not t3 - t1.
C4_StartOverwrites == [][SlotReplaced /\ MeasuredFromSecondStart']_vars

C4_Witness ==
    /\ retMs # <<>>
    /\ TwoStartsThenStop
    /\ hist[Len(hist) - 2].t # hist[Len(hist) - 1].t
    /\ hist[Len(hist) - 1].t # hist[Len(hist)].t

QueryIsPureRead ==
    IsQuery =>
        /\ cron' = cron
        /\ retMs # <<>> => retMs' = retMs
        /\ retFmt # <<>> => retFmt' = retFmt

\* C5: a query leaves start_time and end_time as they were, and returns what
\* the same query returned before if no start() or stop() came in between.
C5_QueriesArePureReads == [][QueryIsPureRead]_vars

C5_Witness ==
    /\ nQueries >= 3
    /\ retMs # <<>>
    /\ retFmt # <<>>
    /\ BothPresent
    /\ ~DecIsZero(retMs[1].val)

\* C6: no call raises: the error state is never reached and every query made
\* has returned a value, with timestamps absent or in either order.
C6_NoCallRaises ==
    /\ ~err
    /\ retMs # <<>> => ~retMs[1].raised
    /\ retFmt # <<>> => (~retFmt[1].raised /\ Len(retFmt[1].val) > 0)

C6_Witness ==
    /\ retMs # <<>>
    /\ retFmt # <<>>
    /\ BothPresent
    /\ ElapsedMs < 0

\* C7: with both timestamps present and stopTime before startTime,
\* elapsedMilliseconds() returns the negative number stopTime - startTime in
\* milliseconds.
C7_NegativeWhenStopBeforeStart ==
    (retMs # <<>> /\ BothPresent /\ ElapsedMs < 0)
        => /\ ~retMs[1].raised
           /\ DecIsNeg(retMs[1].val)
           /\ DecIsInt(retMs[1].val, ElapsedMs)

C7_Witness ==
    /\ retMs # <<>>
    /\ Len(hist) = 2
    /\ hist[1].op = "stop"
    /\ hist[2].op = "start"
    /\ hist[1].t < hist[2].t

SlotsIndependent ==
    IsMutation =>
        LET c == hist'[Len(hist')]
        IN  /\ c.op = "start" => cron'.end_time = cron.end_time
            /\ c.op = "stop" => cron'.start_time = cron.start_time
            /\ (c.op = "stop" /\ cron = Cronometer) =>
                   (cron'.end_time # None /\ cron'.start_time = None)

FreshHasBothAbsent ==
    hist = <<>> => (cron.start_time = None /\ cron.end_time = None)

\* C8: a fresh stopwatch has both slots absent; start() leaves end_time as it
\* was and stop() leaves start_time as it was, so stop() on a fresh stopwatch
\* gives end_time present and start_time absent.
C8_SlotsAreIndependent == [][SlotsIndependent /\ FreshHasBothAbsent']_vars

C8_Witness ==
    /\ Len(hist) = 3
    /\ hist[1].op = "stop"
    /\ hist[2].op = "start"
    /\ hist[3].op = "stop"
    /\ cron.end_time # None
    /\ cron.start_time # None
    /\ hist[1].t # hist[3].t

NegativeOnlyAfterLateStart ==
    retMs # <<>> =>
        /\ DecIsNeg(retMs[1].val) =>
              /\ HasCall("start")
              /\ HasCall("stop")
              /\ LastIndex("start") > LastIndex("stop")
        /\ (HasCall("start") /\ hist[Len(hist)].op = "stop") =>
              ~DecIsNeg(retMs[1].val)

BothCalledBothPresent == (HasCall("start") /\ HasCall("stop")) => BothPresent

SlotStaysSet ==
    /\ cron.start_time # None => cron'.start_time # None
    /\ cron.end_time # None => cron'.end_time # None

\* C9: under a clock that never goes back, the elapsed time is negative only
\* if a start() came after the most recent stop(), it is >= 0 when start() was
\* called and the last of the start()/stop() calls is a stop(), a slot once
\* set stays set, and after a start() and a stop() both slots are present.
C9_MonotoneClock ==
    [][SlotStaysSet /\ NegativeOnlyAfterLateStart' /\ BothCalledBothPresent']_vars

C9_Witness ==
    /\ retMs # <<>>
    /\ Len(hist) = 3
    /\ hist[1].op = "stop"
    /\ hist[2].op = "start"
    /\ hist[3].op = "stop"
    /\ hist[1].t < hist[2].t
    /\ hist[2].t < hist[3].t

FactArgsInRange == \A k \in 1..Len(stack) : stack[k] \in 0..(Modulus - 1)

FactDepthBounded == Len(stack) <= Modulus - 1

FactRecurrence ==
    \A r \in returned :
        IF r.n <= 1 THEN r.val = <<1>>
        ELSE \E q \in returned : q.n = r.n - 1 /\ r.val = BigMul(q.val, r.n)

FactKnownValues ==
    \A r \in returned :
        /\ r.n = 5 => r.val = <<120>>
        /\ r.n = 10 => r.val = <<8800, 362>>
        /\ r.n = 19 => r.val = <<2000, 883, 1004, 1645, 12>>

FactTimed ==
    /\ pc # "start" => fstart # None
    /\ pc \in {"start", "loop", "call", "return", "end"} => fend = None
    /\ fend # None => (pc = "done" /\ i = RangeStop - 1 /\ stack = <<>>)

FactSafe ==
    /\ FactArgsInRange
    /\ FactDepthBounded
    /\ FactRecurrence
    /\ FactKnownValues
    /\ FactTimed

\* C10: in the factorial benchmark every argument is in 0..19, at most 19
\* frames are open, factorial(n) returns 1 for n <= 1 and n * factorial(n - 1)
\* otherwise, start is taken before the loop and end after it, and every call
\* returns: the script reaches its end.
C10_FactorialBenchmark == []FactSafe /\ <>(pc = "done")

C10_Witness ==
    /\ pc = "done"
    /\ fstart # None
    /\ fend # None
    /\ Cardinality(returned) = Modulus
    /\ result = <<1570, 7590, 4296, 2127, 64>>
    /\ [n |-> 19, val |-> <<2000, 883, 1004, 1645, 12>>] \in returned

====
